---- MODULE Spec2Model ----
(***************************************************************************)
(* sec-buddy: the diagnostics engines of the C and the Python language     *)
(* servers (validateTextDocument) and the document / configuration events  *)
(* that drive them.                                                        *)
(*                                                                         *)
(* A text is a sequence of one-character strings; offsets are the 0-based  *)
(* offsets JavaScript uses (RegExpExecArray.index, RegExp.lastIndex), so   *)
(* the character at offset p is text[p + 1].                               *)
(***************************************************************************)
EXTENDS Integers, Sequences, FiniteSets, TLC

\* ------------------------------------------------------------------ bounds
\* Problem caps 0..MaxCap are tried besides the default cap.
MaxCap == 2
\* Number of fragments a document is built from by content changes.
MaxEdits == 2

\* defaultSettings.maxNumberOfProblems
DefaultMaxProblems == 1000

\* ------------------------------------------------------- regular expressions
\* \w of a JavaScript regular expression (without the u and i flags' extras).
WordChars ==
  { "a","b","c","d","e","f","g","h","i","j","k","l","m","n","o","p","q","r",
    "s","t","u","v","w","x","y","z",
    "A","B","C","D","E","F","G","H","I","J","K","L","M","N","O","P","Q","R",
    "S","T","U","V","W","X","Y","Z",
    "0","1","2","3","4","5","6","7","8","9","_" }

\* The characters "." does not match.
LineTerminators == { "\n", "\r" }

\* Is the character at offset p (if any) a word character?
IsWordAt(text, p) == p >= 0 /\ p < Len(text) /\ text[p + 1] \in WordChars

\* \b at offset p: exactly one of the characters before and after p is a
\* word character.
WordBoundary(text, p) == IsWordAt(text, p - 1) # IsWordAt(text, p)

\* A sequence of character classes matches the text at offset p.
FixedAt(text, items, p) ==
  /\ p >= 0
  /\ p + Len(items) <= Len(text)
  /\ \A k \in 1..Len(items) : text[p + k] \in items[k]

\* The number of consecutive occurrences of the character c from offset p.
RECURSIVE RunLen(_, _, _)
RunLen(text, c, p) ==
  IF p < Len(text) /\ text[p + 1] = c THEN 1 + RunLen(text, c, p + 1) ELSE 0

\* The least element of a non-empty set of integers.
Min(S) == CHOOSE x \in S : \A y \in S : x <= y
Max(S) == CHOOSE x \in S : \A y \in S : x >= y

(***************************************************************************)
(* A pattern is a record                                                   *)
(*   lead   : the pattern starts with \b                                   *)
(*   prefix : the character classes matched first                          *)
(*   lazy   : the prefix is followed by  c*.+?  (c = rep) and the suffix   *)
(*   rep    : the character of the greedy  c*                              *)
(*   suffix : the character classes closing a lazy pattern                 *)
(*   trail  : the pattern ends with \b                                     *)
(*   global : the g flag                                                   *)
(* which covers every regular expression of the two servers.               *)
(***************************************************************************)

\* Offsets q at which the suffix of a lazy pattern can start when c* took kk
\* characters from offset p:  .+?  takes the q - (p + kk) >= 1 characters in
\* between, none of them a line terminator.
SuffixStarts(text, pat, p, kk) ==
  { q \in (p + kk + 1)..Len(text) :
      /\ \A r \in (p + kk)..(q - 1) : text[r + 1] \notin LineTerminators
      /\ FixedAt(text, pat.suffix, q)
      /\ (pat.trail => WordBoundary(text, q + Len(pat.suffix))) }

\* The end offset of the match the backtracking matcher finds at start offset
\* s, or -1: the greedy c* gives characters back one at a time (most first),
\* the lazy .+? takes as few as possible.
MatchEnd(text, pat, s) ==
  IF ~ ((pat.lead => WordBoundary(text, s)) /\ FixedAt(text, pat.prefix, s))
  THEN -1
  ELSE LET p == s + Len(pat.prefix) IN
    IF ~ pat.lazy
    THEN IF pat.trail => WordBoundary(text, p) THEN p ELSE -1
    ELSE LET ks == { kk \in 0..RunLen(text, pat.rep, p) :
                       SuffixStarts(text, pat, p, kk) # {} }
         IN IF ks = {} THEN -1
            ELSE Min(SuffixStarts(text, pat, p, Max(ks))) + Len(pat.suffix)

\* The null result of RegExp.prototype.exec.
NoMatch == [found |-> FALSE, index |-> 0, end |-> 0]

\* RegExp.prototype.exec: the result and the regular expression's new
\* lastIndex.  A global expression searches from lastIndex and leaves
\* lastIndex at the end of the match (0 after a failure); an expression
\* without the g flag searches from 0 and never touches lastIndex.
Exec(text, pat, lastIndex) ==
  LET from   == IF pat.global THEN lastIndex ELSE 0
      \* every pattern starts with a character class: only the offsets of
      \* its characters can start a match
      starts == { s \in from..(Len(text) - 1) :
                    text[s + 1] \in pat.prefix[1]
                      /\ MatchEnd(text, pat, s) # -1 }
  IN IF starts = {}
     THEN [m |-> NoMatch, lastIndex |-> IF pat.global THEN 0 ELSE lastIndex]
     ELSE LET s == Min(starts)
              e == MatchEnd(text, pat, s)
          IN [m |-> [found |-> TRUE, index |-> s, end |-> e],
              lastIndex |-> IF pat.global THEN e ELSE lastIndex]

\* String.prototype.search(regexp) # -1: the search always starts at offset 0,
\* whatever the flags.
Search(str, pat) ==
  \E s \in 0..(Len(str) - 1) :
    str[s + 1] \in pat.prefix[1] /\ MatchEnd(str, pat, s) # -1

\* ------------------------------------------------------- pattern constructors
LowerLetters ==
  << "a","b","c","d","e","f","g","h","i","j","k","l","m","n","o","p","q","r",
     "s","t","u","v","w","x","y","z" >>
UpperLetters ==
  << "A","B","C","D","E","F","G","H","I","J","K","L","M","N","O","P","Q","R",
     "S","T","U","V","W","X","Y","Z" >>

\* Both cases of a letter (the i flag), the character itself otherwise.
BothCases(c) ==
  {c} \cup { LowerLetters[k] : k \in { j \in 1..26 : UpperLetters[j] = c } }
      \cup { UpperLetters[k] : k \in { j \in 1..26 : LowerLetters[j] = c } }

\* Character classes of a literal, and of a literal under the i flag.
Lit(chars) == [k \in 1..Len(chars) |-> {chars[k]}]
LitI(chars) == [k \in 1..Len(chars) |-> BothCases(chars[k])]

Punctuation ==
  { "(", ")", "[", "]", ";", ",", ".", "'", "\"", " ", "=", "\n", "\r" }
\* What "." matches.
AnyChar == (WordChars \cup Punctuation) \ LineTerminators

D(lo, hi) ==
  { (<<"0","1","2","3","4","5","6","7","8","9">>)[k + 1] : k \in lo..hi }

\* /literal/ with optional \b on either side.
Literal(lead, items, trail, global) ==
  [lead |-> lead, prefix |-> items, lazy |-> FALSE, rep |-> "",
   suffix |-> <<>>, trail |-> trail, global |-> global]

\* /name c*.+? suffix/g with optional \b on either side.
Lazy(lead, items, rep, suffix, trail) ==
  [lead |-> lead, prefix |-> items, lazy |-> TRUE, rep |-> rep,
   suffix |-> suffix, trail |-> trail, global |-> TRUE]

\* ------------------------------------------------------------------ catalogs
(***************************************************************************)
(* A rule is a record                                                      *)
(*   name      : the variable or setting the source names it by            *)
(*   pattern   : its regular expression                                    *)
(*   errorMsg  : the message text of its diagnostics, as the pieces whose   *)
(*               concatenation it is (identifiers are pieces of their own) *)
(*   withMatch : the message starts with the matched text (${m[0]})        *)
(*   gate      : "toggle", "context" or "version"                          *)
(*   versions  : the version patterns of a version-gated rule              *)
(***************************************************************************)
Rule(name, pattern, errorMsg, withMatch, gate, versions) ==
  [name |-> name, pattern |-> pattern, errorMsg |-> errorMsg,
   withMatch |-> withMatch, gate |-> gate, versions |-> versions]

\* The toggles of the C servers (interface c) and of the Python servers.
CToggles == { "strcpy", "gets", "stpcpy", "strcat", "strcmp", "sprintf", "vsprintf" }
PyToggles == { "errorMessages", "inputValidation" }

\* The seven rules of a C server, /f\(*.+?\)/g for each function f, with \b
\* in front (lead) and behind (trail).
CCatalog(lead, trail) ==
  <<
    Rule("strcpy", Lazy(lead, Lit(<<"s","t","r","c","p","y">>), "(", Lit(<<")">>), trail),
         << "strcpy() is vulnerable to buffer overflow attacks. Consider using ",
            "strncpy()",
            "." >>,
         FALSE, "toggle", <<>>),
    Rule("gets", Lazy(lead, Lit(<<"g","e","t","s">>), "(", Lit(<<")">>), trail),
         << "gets() is vulnerable to buffer overflow attacks. Consider using ",
            "fgets()",
            "." >>,
         FALSE, "toggle", <<>>),
    Rule("stpcpy", Lazy(lead, Lit(<<"s","t","p","c","p","y">>), "(", Lit(<<")">>), trail),
         << "stpcpy() is vulnerable to buffer overflow attacks. Consider using ",
            "stpncpy()",
            "." >>,
         FALSE, "toggle", <<>>),
    Rule("strcat", Lazy(lead, Lit(<<"s","t","r","c","a","t">>), "(", Lit(<<")">>), trail),
         << "strcat() is vulnerable to buffer overflow attacks. Consider using ",
            "strncat()",
            "." >>,
         FALSE, "toggle", <<>>),
    Rule("strcmp", Lazy(lead, Lit(<<"s","t","r","c","m","p">>), "(", Lit(<<")">>), trail),
         << "strcmp() is vulnerable to buffer overflow attacks. Consider using ",
            "strncmp()",
            "." >>,
         FALSE, "toggle", <<>>),
    Rule("sprintf", Lazy(lead, Lit(<<"s","p","r","i","n","t","f">>), "(", Lit(<<")">>), trail),
         << "sprintf() is vulnerable to buffer overflow attacks. Consider using ",
            "snprintf()",
            "." >>,
         FALSE, "toggle", <<>>),
    Rule("vsprintf", Lazy(lead, Lit(<<"v","s","p","r","i","n","t","f">>), "(", Lit(<<")">>), trail),
         << "vsprintf() is vulnerable to buffer overflow attacks. Consider using ",
            "snprintf()",
            "." >>,
         FALSE, "toggle", <<>>)
  >>

\* The catalog of the C server: /\bf\(*.+?\)\b/g.
vulnerabilities == CCatalog(TRUE, TRUE)

\* The catalog with the patterns /f\(*.+?\)/g, which start a match anywhere in
\* a line.
vulnerabilitiesUnanchored == CCatalog(FALSE, FALSE)

\* The catalog of the compiled C server: /\bf\(*.+?\)/g.
vulnerabilitiesOut == CCatalog(TRUE, FALSE)

\* The hand-written loops of the Python server: error, input, mktemp.
pyToggleRules ==
  <<
    Rule("errorMessages", Literal(FALSE, LitI(<<"e","r","r","o","r">>), FALSE, TRUE),
         << "Error messages can lead to vulnerabilities if this code is used as part of a client. To turn these messages off, go to the extension's settings and disable \"Error Message Checks\"" >>,
         FALSE, "toggle", <<>>),
    Rule("inputValidation", Lazy(FALSE, Lit(<<"i","n","p","u","t">>), "(", Lit(<<")">>), FALSE),
         << "Ensure that there is input validation for this! You can turn these reminders off in the extension's settings under \"Input Validation\"" >>,
         FALSE, "toggle", <<>>),
    Rule("mktemp", Lazy(FALSE, Lit(<<"m","k","t","e","m","p">>), "(", Lit(<<")">>), FALSE),
         << " can overwrite existing temp files, consider using mkstemp() (",
            "CVE-2023-2800",
            ")" >>,
         TRUE, "context", <<>>)
  >>

\* The same loops in the earlier Python server.
pyOldToggleRules ==
  <<
    Rule("errorMessages", Literal(FALSE, LitI(<<"e","r","r","o","r">>), FALSE, TRUE),
         << "Error messages can lead to vulnerabilities if this code is used as part of a client. To turn these messages off, go to the extensions settings and disable \"Error Message Checks\"" >>,
         FALSE, "toggle", <<>>),
    Rule("inputValidation", Lazy(FALSE, Lit(<<"i","n","p","u","t">>), "(", Lit(<<")">>), FALSE),
         << "Ensure that there is input validation for this! You can turn these reminders off in the extension's settings under \"Input Validation\"" >>,
         FALSE, "toggle", <<>>),
    Rule("mktemp", Lazy(FALSE, Lit(<<"m","k","t","e","m","p">>), "(", Lit(<<")">>), FALSE),
         << " can overwrite existing temp files, consider using mkstemp() (",
            "CVE-2023-2800",
            ")" >>,
         TRUE, "context", <<>>)
  >>

\* /makefile/g
makefilepattern == Literal(FALSE, Lit(<<"m","a","k","e","f","i","l","e">>), FALSE, TRUE)

cve2023_27043 ==
  Rule("cve2023_27043", Literal(FALSE, Lit(<<"e","m","a","i","l",".","u","t","i","l","s">>), FALSE, TRUE),
       << "This package is vulnerable in your current version of python. Consider updating or avoid the use of email.utils.parsaddr() and email.utils.getaddresses() (",
          "CVE-2023-27043",
          ")" >>,
       FALSE, "version",
       << Literal(FALSE, <<{"3"}, {"."}, {"1"}, {"0"}, {"."}>>, FALSE, TRUE),
          Literal(FALSE, <<{"3"}, {"."}, D(7, 9), {"."}>>, FALSE, TRUE) >>)

cve2023_24329 ==
  Rule("cve2023_24329", Literal(FALSE, Lit(<<"u","r","l","l","i","b",".","p","a","r","s","e">>), FALSE, TRUE),
       << "This package is vulnerable in your current version of python. Consider updating or avoid the use of urllib.parse.urlparse() (",
          "CVE-2023-24329",
          ")" >>,
       FALSE, "version",
       << Literal(FALSE, <<{"3"}, {"."}, {"1"}, {"0"}, {"."}>>, FALSE, TRUE),
          Literal(FALSE, <<{"3"}, {"."}, {"9"}, {"."}>>, FALSE, TRUE),
          Literal(FALSE, <<{"3"}, {"."}, {"8"}, {"."}>>, FALSE, TRUE),
          Literal(FALSE, <<{"3"}, {"."}, {"7"}, {"."}>>, FALSE, TRUE) >>)

\* The hashlib rule with the ranges below 3.7 only.
cve2022_37454Early ==
  Rule("cve2022_37454", Literal(FALSE, Lit(<<"h","a","s","h","l","i","b">>), FALSE, TRUE),
       << "This package is vulnerable in your current version of python. Consider updating or avoid the use of hashlib.sha3_224 (",
          "CVE-2022-37454",
          ")" >>,
       FALSE, "version",
       << Literal(FALSE, <<{"3"}, {"."}, D(0, 6), {"."}>>, FALSE, FALSE),
          Literal(FALSE, <<{"2"}, {"."}, D(0, 7), {"."}>>, FALSE, FALSE),
          Literal(FALSE, <<{"1"}, {"."}, D(0, 6), {"."}>>, FALSE, FALSE) >>)

cve2022_37454 ==
  Rule("cve2022_37454", Literal(FALSE, Lit(<<"h","a","s","h","l","i","b">>), FALSE, TRUE),
       << "This package is vulnerable in your current version of python. Consider updating or avoid the use of hashlib.sha3_224 (",
          "CVE-2022-37454",
          ")" >>,
       FALSE, "version",
       << Literal(FALSE, <<{"3"}, {"."}, D(0, 6), {"."}>>, FALSE, FALSE),
          Literal(FALSE, <<{"2"}, {"."}, D(0, 7), {"."}>>, FALSE, FALSE),
          Literal(FALSE, <<{"1"}, {"."}, D(0, 6), {"."}>>, FALSE, FALSE),
          Literal(TRUE, <<{"3"}, {"."}, D(7, 9), {"."}, D(0, 9)>>, TRUE, FALSE),
          Literal(TRUE, <<{"3"}, {"."}, D(7, 9), {"."}, {"1"}, D(0, 5)>>, TRUE, FALSE),
          Literal(TRUE, <<{"3"}, {"."}, {"1"}, {"0"}, {"."}, D(0, 8)>>, TRUE, FALSE) >>)

cve2022_45061 ==
  Rule("cve2022_45061", Literal(FALSE, Lit(<<"d","e","c","o","d","e","(","'","i","d","n","a","'",")">>), FALSE, TRUE),
       << "This method of decoding uses a quadratic formula and can lead to slow execution time. Consider updating your version (",
          "CVE-2022-45061",
          ")" >>,
       FALSE, "version",
       << Literal(FALSE, <<{"3"}, {"."}, D(0, 6), {"."}>>, FALSE, FALSE),
          Literal(FALSE, <<{"2"}, {"."}, D(0, 7), {"."}>>, FALSE, FALSE),
          Literal(FALSE, <<{"1"}, {"."}, D(0, 6), {"."}>>, FALSE, FALSE),
          Literal(TRUE, <<{"3"}, {"."}, D(7, 9), {"."}, D(0, 9)>>, TRUE, FALSE),
          Literal(TRUE, <<{"3"}, {"."}, D(7, 9), {"."}, {"1"}, D(0, 5)>>, TRUE, FALSE),
          Literal(TRUE, <<{"3"}, {"."}, {"1"}, {"0"}, {"."}, D(0, 8)>>, TRUE, FALSE),
          Literal(TRUE, <<{"3"}, {"."}, {"1"}, {"1"}, {"."}, {"0"}>>, TRUE, FALSE) >>)

cve2022_42919 ==
  Rule("cve2022_42919", Literal(FALSE, Lit(<<"m","u","l","t","i","p","r","o","c","e","s","s","i","n","g",".","u","t","i","l">>), FALSE, TRUE),
       << "This package is vulnerable in your current version of python. Forkserver may allow for privilege escalation attacks when executed on Linux systems (",
          "CVE-2022-42919",
          ")" >>,
       FALSE, "version",
       << Literal(TRUE, <<{"3"}, {"."}, {"9"}, {"."}, D(0, 9)>>, TRUE, FALSE),
          Literal(TRUE, <<{"3"}, {"."}, {"9"}, {"."}, {"1"}, D(0, 5)>>, TRUE, FALSE),
          Literal(TRUE, <<{"3"}, {"."}, {"1"}, {"0"}, AnyChar, D(0, 8)>>, TRUE, FALSE) >>)

cve2020_10735 ==
  Rule("cve2020_10735", Lazy(FALSE, Lit(<<"i","n","t","(">>), "\"", Lit(<<"\"",")">>), FALSE),
       << "This method has a quadratic time formula in your version of python. This can be abused for a DOS attack. Consider updating your version or adding a limit to the amount of characters used by this function (",
          "CVE-2020-10735",
          ")" >>,
       FALSE, "version",
       << Literal(FALSE, <<{"3"}, {"."}, D(0, 6), {"."}>>, FALSE, FALSE),
          Literal(FALSE, <<{"2"}, {"."}, D(0, 7), {"."}>>, FALSE, FALSE),
          Literal(FALSE, <<{"1"}, {"."}, D(0, 6), {"."}>>, FALSE, FALSE),
          Literal(TRUE, <<{"3"}, {"."}, D(7, 9), {"."}, D(0, 9)>>, TRUE, FALSE),
          Literal(TRUE, <<{"3"}, {"."}, D(7, 9), {"."}, {"1"}, D(0, 3)>>, TRUE, FALSE),
          Literal(TRUE, <<{"3"}, {"."}, {"1"}, {"0"}, {"."}, D(0, 6)>>, TRUE, FALSE) >>)

cve2018_25032 ==
  Rule("cve2018_25032", Literal(FALSE, Lit(<<"z","l","i","b">>), FALSE, TRUE),
       << "This package is vulnerable in your current version of python. Zlib contains an out-of-bounds access flaw, which can allow memory corruption (",
          "CVE-2018-25032",
          ")" >>,
       FALSE, "version",
       << Literal(TRUE, <<{"3"}, {"."}, D(7, 9), {"."}, D(0, 9)>>, TRUE, FALSE),
          Literal(TRUE, <<{"3"}, {"."}, D(7, 9), {"."}, {"1"}, D(0, 3)>>, TRUE, FALSE),
          Literal(TRUE, <<{"3"}, {"."}, D(7, 8), {"."}, {"1"}, {"4"}>>, TRUE, FALSE),
          Literal(TRUE, <<{"3"}, {"."}, {"1"}, {"0"}, {"."}, D(0, 4)>>, TRUE, FALSE) >>)

cve2016_3189 ==
  Rule("cve2016_3189", Literal(FALSE, Lit(<<"b","z","2">>), FALSE, TRUE),
       << "This package is vulnerable in your current version of python. This version of bzip2 allows for remote DoS attacks (",
          "CVE-2016-3189",
          ")" >>,
       FALSE, "version",
       << Literal(TRUE, <<{"3"}, {"."}, D(7, 9), {"."}, D(0, 9)>>, TRUE, FALSE),
          Literal(TRUE, <<{"3"}, {"."}, D(7, 9), {"."}, {"1"}, D(0, 1)>>, TRUE, FALSE),
          Literal(TRUE, <<{"3"}, {"."}, D(7, 8), {"."}, D(2, 3)>>, TRUE, FALSE),
          Literal(TRUE, <<{"3"}, {"."}, {"1"}, {"0"}, {"."}, D(0, 3)>>, TRUE, FALSE) >>)

cve2019_12900 ==
  Rule("cve2019_12900", Literal(FALSE, Lit(<<"b","z","2">>), FALSE, TRUE),
       << "This package is vulnerable in your current version of python. TThis version of bzip allows for out-of-bounds writes when decompressing (",
          "CVE-2019-12900",
          ")" >>,
       FALSE, "version",
       << Literal(TRUE, <<{"3"}, {"."}, D(7, 9), {"."}, D(0, 9)>>, TRUE, FALSE),
          Literal(TRUE, <<{"3"}, {"."}, D(7, 9), {"."}, {"1"}, D(0, 1)>>, TRUE, FALSE),
          Literal(TRUE, <<{"3"}, {"."}, D(7, 8), {"."}, D(2, 3)>>, TRUE, FALSE),
          Literal(TRUE, <<{"3"}, {"."}, {"1"}, {"0"}, {"."}, D(0, 3)>>, TRUE, FALSE) >>)

cve2013_0340 ==
  Rule("cve2013_0340", Literal(FALSE, Lit(<<"x","m","l">>), FALSE, TRUE),
       << "This package is vulnerable in your current version of python. This package is vulnerable to the XML billion laughs attack when using parser.expat (",
          "CVE-2013-0340",
          ")" >>,
       FALSE, "version",
       << Literal(TRUE, <<{"3"}, {"."}, D(6, 8), AnyChar, D(0, 9)>>, TRUE, FALSE),
          Literal(TRUE, <<{"3"}, {"."}, D(6, 8), {"."}, {"1"}, D(0, 2)>>, TRUE, FALSE),
          Literal(TRUE, <<{"3"}, {"."}, {"6"}, {"."}, {"1"}, D(3, 5)>>, TRUE, FALSE),
          Literal(TRUE, <<{"3"}, {"."}, {"9"}, {"."}, D(0, 7)>>, TRUE, FALSE) >>)

cve2021_3737 ==
  Rule("cve2021_3737", Literal(TRUE, Lit(<<"u","r","l","l","i","b",".","r","e","q","u","e","s","t">>), TRUE, FALSE),
       << "This package is vulnerable in your current version of python. HTTP requests can enter an infinite loop (",
          "CVE-2021-3737",
          ")" >>,
       FALSE, "version",
       << Literal(TRUE, <<{"3"}, {"."}, D(6, 8), {"."}, D(0, 9)>>, TRUE, FALSE),
          Literal(TRUE, <<{"3"}, {"."}, {"6"}, {"."}, {"1"}, D(0, 4)>>, TRUE, FALSE),
          Literal(TRUE, <<{"3"}, {"."}, D(7, 8), {"."}, {"1"}, D(0, 1)>>, TRUE, FALSE),
          Literal(TRUE, <<{"3"}, {"."}, {"9"}, {"."}, D(0, 6)>>, TRUE, FALSE) >>)

\* The CVE rules without the urllib.request rule.
pyVulnerabilitiesTen ==
  << cve2023_27043, cve2023_24329, cve2022_37454, cve2022_45061, cve2022_42919, cve2020_10735,
     cve2018_25032, cve2016_3189, cve2019_12900, cve2013_0340 >>

\* The CVE rules of the Python server, in push order.
pyVulnerabilities ==
  << cve2023_27043, cve2023_24329, cve2022_37454, cve2022_45061, cve2022_42919, cve2020_10735,
     cve2018_25032, cve2016_3189, cve2019_12900, cve2013_0340, cve2021_3737 >>

\* The list "Currently Handled CVE's" of the README.
HandledCVEs ==
  << "CVE-2023-27043", "CVE-2023-24329", "CVE-2022-37454", "CVE-2022-45061",
     "CVE-2022-42919", "CVE-2020-10735", "CVE-2018-25032", "CVE-2016-3189",
     "CVE-2019-12900", "CVE-2013-0340", "CVE-2021-3737" >>

\* The only version-gated rule of the earlier Python server.
emailutils ==
  Rule("emailutils", Literal(FALSE, Lit(<<"e","m","a","i","l",".","u","t","i","l","s">>), FALSE, TRUE),
       << " This package is vulnerable in your current version of python. Consider updating or avoid the use of email.utils.parsaddr() and email.utils.getaddresses() (",
          "CVE-2023-27043",
          ")" >>,
       TRUE, "version",
       << Literal(FALSE, <<{"3"}, {"."}, {"1"}, {"0"}, {"."}>>, FALSE, TRUE),
          Literal(FALSE, <<{"3"}, {"."}, {"9"}, {"."}>>, FALSE, TRUE),
          Literal(FALSE, <<{"3"}, {"."}, {"8"}, {"."}>>, FALSE, TRUE),
          Literal(FALSE, <<{"3"}, {"."}, {"7"}, {"."}>>, FALSE, TRUE) >>)

\* --------------------------------------------------------------- the engines
Servers == { "c", "cout", "py", "pyold" }

\* The diagnostic built in the body of a match loop.  The range is kept as
\* the two offsets handed to textDocument.positionAt; the message is the
\* matched text (when the template starts with ${m[0]}) and the fixed text.
\* The diagnostic literal with a range that leaves out the last character of
\* the match.
DiagnosticShort(text, rule, m) ==
  [severity |-> "Warning",
   start    |-> m.index,
   end      |-> m.end - 1,
   message  |-> [m0  |-> IF rule.withMatch
                         THEN SubSeq(text, m.index + 1, m.end) ELSE <<>>,
                 msg |-> rule.errorMsg],
   source   |-> "sec-buddy"]

\* The diagnostic literal with the severity Error.
DiagnosticError(text, rule, m) ==
  [severity |-> "Error",
   start    |-> m.index,
   end      |-> m.end,
   message  |-> [m0  |-> IF rule.withMatch
                         THEN SubSeq(text, m.index + 1, m.end) ELSE <<>>,
                 msg |-> rule.errorMsg],
   source   |-> "sec-buddy"]

Diagnostic(text, rule, m) ==
  [severity |-> "Warning",
   start    |-> m.index,
   end      |-> m.end,
   message  |-> [m0  |-> IF rule.withMatch
                         THEN SubSeq(text, m.index + 1, m.end) ELSE <<>>,
                 msg |-> rule.errorMsg],
   source   |-> "sec-buddy"]

\* e, with x evaluated first: operator arguments are evaluated when first
\* used, which would nest the evaluation of one loop inside the next.
Eager(x, e) == IF x = x THEN e ELSE e

\* A regular expression object created once and shared by every scan.
KeepRegExp(prev) == prev

\* The lastIndex of a regular expression a scan creates: every regular
\* expression literal is evaluated anew by each call of validateTextDocument,
\* whatever the lastIndex (prev) of the object the previous call created.
NewRegExp(prev) == 0

\* The loop with the condition problems <= cap.
RECURSIVE MatchLoopInclusive(_, _, _, _, _)
MatchLoopInclusive(text, rule, active, cap, st) ==
  LET r == Exec(text, rule.pattern, st.lastIndex) IN
  IF r.m.found /\ st.problems <= cap /\ active
  THEN Eager(st, MatchLoopInclusive(text, rule, active, cap,
         [problems    |-> st.problems + 1,
          diagnostics |-> Append(st.diagnostics, Diagnostic(text, rule, r.m)),
          lastIndex   |-> r.lastIndex]))
  ELSE [st EXCEPT !.lastIndex = r.lastIndex]

\* The loop that drops a match whose span a diagnostic already has.
RECURSIVE MatchLoopDedup(_, _, _, _, _)
MatchLoopDedup(text, rule, active, cap, st) ==
  LET r == Exec(text, rule.pattern, st.lastIndex)
      seen == \E k \in 1..Len(st.diagnostics) :
                /\ st.diagnostics[k].start = r.m.index
                /\ st.diagnostics[k].end = r.m.end
  IN
  IF r.m.found /\ st.problems < cap /\ active
  THEN Eager(st, MatchLoopDedup(text, rule, active, cap,
         IF seen THEN [st EXCEPT !.lastIndex = r.lastIndex]
         ELSE [problems    |-> st.problems + 1,
               diagnostics |-> Append(st.diagnostics, Diagnostic(text, rule, r.m)),
               lastIndex   |-> r.lastIndex]))
  ELSE [st EXCEPT !.lastIndex = r.lastIndex]

\* The loop that stops one short of the cap.
RECURSIVE MatchLoopEarly(_, _, _, _, _)
MatchLoopEarly(text, rule, active, cap, st) ==
  LET r == Exec(text, rule.pattern, st.lastIndex) IN
  IF r.m.found /\ st.problems + 1 < cap /\ active
  THEN Eager(st, MatchLoopEarly(text, rule, active, cap,
         [problems    |-> st.problems + 1,
          diagnostics |-> Append(st.diagnostics, Diagnostic(text, rule, r.m)),
          lastIndex   |-> r.lastIndex]))
  ELSE [st EXCEPT !.lastIndex = r.lastIndex]

\* while ((m = rule.pattern.exec(text)) && problems < cap && active) { ... }
\* st is [problems, diagnostics, lastIndex], lastIndex that of rule.pattern;
\* exec runs before the other two conditions are looked at.
RECURSIVE MatchLoop(_, _, _, _, _)
MatchLoop(text, rule, active, cap, st) ==
  LET r == Exec(text, rule.pattern, st.lastIndex) IN
  IF r.m.found /\ st.problems < cap /\ active
  THEN Eager(st, MatchLoop(text, rule, active, cap,
         [problems    |-> st.problems + 1,
          diagnostics |-> Append(st.diagnostics, Diagnostic(text, rule, r.m)),
          lastIndex   |-> r.lastIndex]))
  ELSE [st EXCEPT !.lastIndex = r.lastIndex]

\* The context signal taken as given.
makefileAlways(text) == TRUE

\* while ((m = makefilepattern.exec(text))) { makefileExists = true; }
RECURSIVE makefileLoop(_, _, _)
makefileLoop(text, lastIndex, exists) ==
  LET r == Exec(text, makefilepattern, lastIndex) IN
  IF r.m.found THEN makefileLoop(text, r.lastIndex, TRUE) ELSE exists

makefileExists(text) == makefileLoop(text, NewRegExp(0), FALSE)

\* The flag of a rule that asks for every one of its ranges.
vulnerableAll(currentVersion, versions) ==
  \A j \in 1..Len(versions) : Search(currentVersion, versions[j])

\* for (let j = 0; j < versions.length; j++)
\*   if (currentVersion.search(versions[j]) != -1) vulnerable = true;
RECURSIVE versionLoop(_, _, _, _)
versionLoop(currentVersion, versions, j, flag) ==
  IF j > Len(versions) THEN flag
  ELSE versionLoop(currentVersion, versions, j + 1,
                   IF Search(currentVersion, versions[j]) THEN TRUE ELSE flag)

\* let vulnerable = false; followed by the loop over the rule's versions.
vulnerable(currentVersion, versions) ==
  versionLoop(currentVersion, versions, 1, FALSE)

\* obj.key read for its truth: undefined, the value of a key the object
\* lacks, counts as false (and undefined == true is false).
Truthy(obj, key) == key \in DOMAIN obj /\ obj[key] = TRUE

\* settings.python.version is undefined, so currentVersion.search is a
\* TypeError.
SearchThrows(settings) == "version" \notin DOMAIN settings.python

\* Every toggle-gated rule active whatever its setting.
ActiveAlways(server, rule, settings, text) ==
  CASE rule.gate = "toggle" -> TRUE
    [] rule.gate = "context" -> makefileExists(text)
    [] rule.gate = "version" -> vulnerable(settings.python.version, rule.versions)

\* The toggle of the first rule as a switch for every toggle-gated rule.
ActiveLinked(server, rule, settings, text) ==
  CASE rule.gate = "toggle" ->
         IF server \in {"c", "cout"}
         THEN Truthy(settings.c, rule.name) /\ Truthy(settings.c, "strcpy")
         ELSE Truthy(settings.python, rule.name)
                /\ Truthy(settings.python, "errorMessages")
    [] rule.gate = "context" -> makefileExists(text)
    [] rule.gate = "version" -> vulnerable(settings.python.version, rule.versions)

\* The third operand of a rule's loop condition.
Active(server, rule, settings, text) ==
  CASE rule.gate = "toggle" ->
         IF server \in {"c", "cout"} THEN Truthy(settings.c, rule.name)
         ELSE Truthy(settings.python, rule.name)
    [] rule.gate = "context" -> makefileExists(text)
    [] rule.gate = "version" -> vulnerable(settings.python.version, rule.versions)

\* The rules of a server in the order their loops run.
Catalog(server) ==
  CASE server = "c" -> vulnerabilities
    [] server = "cout" -> vulnerabilitiesOut
    [] server = "py" -> pyToggleRules \o pyVulnerabilities
    [] server = "pyold" -> Append(pyOldToggleRules, emailutils)

\* The loop of the i-th rule with a problem counter of its own.
RuleLoopPerRule(server, text, settings, i, run) ==
  LET rule == Catalog(server)[i]
      fin == MatchLoop(text, rule, Active(server, rule, settings, text),
                       settings.maxNumberOfProblems,
                       [problems    |-> 0,
                        diagnostics |-> run.diagnostics,
                        lastIndex   |-> run.regexes[i]])
  IN IF run.threw THEN run
     ELSE IF rule.gate = "version" /\ rule.versions # <<>>
               /\ SearchThrows(settings)
     THEN [run EXCEPT !.threw = TRUE]
     ELSE [problems    |-> fin.problems,
           diagnostics |-> fin.diagnostics,
           regexes     |-> [run.regexes EXCEPT ![i] = fin.lastIndex],
           threw       |-> FALSE]

\* The loop of the i-th rule of the catalog.  run is [problems, diagnostics,
\* regexes, threw], regexes[i] the lastIndex of the i-th rule's regular
\* expression object, threw set once an exception has left the function: the
\* version loop in front of a version-gated rule's match loop calls
\* currentVersion.search whether or not the text matches the rule.
RuleLoop(server, text, settings, i, run) ==
  LET rule == Catalog(server)[i]
      fin == MatchLoop(text, rule, Active(server, rule, settings, text),
                       settings.maxNumberOfProblems,
                       [problems    |-> run.problems,
                        diagnostics |-> run.diagnostics,
                        lastIndex   |-> run.regexes[i]])
  IN IF run.threw THEN run
     ELSE IF rule.gate = "version" /\ rule.versions # <<>>
               /\ SearchThrows(settings)
     THEN [run EXCEPT !.threw = TRUE]
     ELSE [problems    |-> fin.problems,
           diagnostics |-> fin.diagnostics,
           regexes     |-> [run.regexes EXCEPT ![i] = fin.lastIndex],
           threw       |-> FALSE]

\* The loops of the rules lo..hi run from the last rule to the first.
RECURSIVE RunRulesBackwards(_, _, _, _, _, _)
RunRulesBackwards(server, text, settings, lo, hi, run) ==
  IF lo > hi THEN run
  ELSE IF lo = hi THEN RuleLoop(server, text, settings, lo, run)
  ELSE LET mid == (lo + hi) \div 2
           last == RunRulesBackwards(server, text, settings, mid + 1, hi, run)
       IN Eager(last, RunRulesBackwards(server, text, settings, lo, mid, last))

\* The loops of the rules lo..hi, one after the other in catalog order (the
\* range is halved rather than peeled, which keeps the evaluation shallow).
RECURSIVE RunRules(_, _, _, _, _, _)
RunRules(server, text, settings, lo, hi, run) ==
  IF lo > hi THEN run
  ELSE IF lo = hi THEN RuleLoop(server, text, settings, lo, run)
  ELSE LET mid == (lo + hi) \div 2
           first == RunRules(server, text, settings, lo, mid, run)
       IN Eager(first, RunRules(server, text, settings, mid + 1, hi, first))

\* The body of validateTextDocument after the settings have arrived.
validateTextDocument(server, text, settings, regexes) ==
  RunRules(server, text, settings, 1, Len(Catalog(server)),
           [problems |-> 0, diagnostics |-> <<>>, regexes |-> regexes,
            threw |-> FALSE])

\* The diagnostics a scan sends (scan(text, config) of the specification).
Scan(server, text, settings) ==
  validateTextDocument(server, text, settings,
                       [i \in 1..Len(Catalog(server)) |-> 0]).diagnostics

\* ---------------------------------------------------------------- settings
\* defaultSettings of a server.
\* The defaults with a declared version of an older release.
defaultSettingsOlder(server) ==
  IF server \in {"c", "cout"}
  THEN [maxNumberOfProblems |-> DefaultMaxProblems,
        c |-> [t \in CToggles |-> TRUE]]
  ELSE [maxNumberOfProblems |-> DefaultMaxProblems,
        python |-> [errorMessages |-> TRUE, inputValidation |-> TRUE,
                    version |-> <<"3",".","8",".","2">>]]

defaultSettings(server) ==
  IF server \in {"c", "cout"}
  THEN [maxNumberOfProblems |-> DefaultMaxProblems,
        c |-> [t \in CToggles |-> TRUE]]
  ELSE [maxNumberOfProblems |-> DefaultMaxProblems,
        python |-> [errorMessages |-> TRUE, inputValidation |-> TRUE,
                    version |-> <<"3",".","1","2",".","0">>]]

\* The problem caps a client sets.
Caps == 0..MaxCap

\* The toggle settings of the C servers a client sets: every rule on, one
\* rule off, every rule off.
CToggleInputs ==
  { [t \in CToggles |-> TRUE], [t \in CToggles |-> FALSE] }
    \cup { [t \in CToggles |-> t # off] : off \in CToggles }

\* The Python versions a client declares together with any toggles, and
\* those it declares with both toggles true.
VersionInputs ==
  { <<"3",".","1","2",".","0">>,
    <<"3",".","8",".","2">> }

MoreVersionInputs ==
  { <<"3",".","1","1",".","0">>,
    <<"3",".","9",".","5">> }

\* The version a client declares leaving every other setting at its default.
OnlyVersionInputs ==
  { <<"3",".","1","0",".","2">> }

\* Settings objects that lack a key: the strcpy toggle; the declared version;
\* the errorMessages toggle.
DefectiveSettings(server) ==
  IF server \in {"c", "cout"}
  THEN { [maxNumberOfProblems |-> MaxCap,
          c |-> [t \in CToggles \ {"strcpy"} |-> TRUE]] }
  ELSE { [maxNumberOfProblems |-> MaxCap,
          python |-> [errorMessages |-> TRUE, inputValidation |-> TRUE]],
         [maxNumberOfProblems |-> MaxCap,
          python |-> [inputValidation |-> TRUE,
                      version |-> <<"3",".","8",".","2">>]] }

\* change.settings.languageServerExample of a configuration change.
SettingsInputs(server) ==
  DefectiveSettings(server) \cup
  IF server \in {"c", "cout"}
  THEN { [maxNumberOfProblems |-> n, c |-> ts] :
           n \in Caps, ts \in CToggleInputs }
  ELSE { [maxNumberOfProblems |-> n,
          python |-> [errorMessages |-> e, inputValidation |-> v,
                      version |-> ver]] :
           n \in Caps, e \in BOOLEAN, v \in BOOLEAN, ver \in VersionInputs }
       \cup
       { [maxNumberOfProblems |-> n,
          python |-> [errorMessages |-> TRUE, inputValidation |-> TRUE,
                      version |-> ver]] :
           n \in Caps, ver \in MoreVersionInputs }
       \cup
       { [defaultSettings(server) EXCEPT !.python.version = ver] :
           ver \in OnlyVersionInputs }

\* ------------------------------------------------------------------- texts
\* The pieces the documents of a C server are typed from.
CFragments ==
  { <<"g","e","t","s","(","b",")">>,
    <<"f">>,
    <<";">>,
    <<"s","t","r","c","p","y","(","a",")","x">> }

\* The pieces the documents of a Python server are typed from.
PyFragments ==
  { <<"E","r","r","o","r">>,
    <<"i","n","p","u","t","(","x",")">>,
    <<"m","k","t","e","m","p","(","x",")">>,
    <<"m","a","k","e","f","i","l","e">>,
    <<"b","z","2">> }

Fragments(server) ==
  IF server \in {"c", "cout"} THEN CFragments ELSE PyFragments

\* Whole documents pasted in one change.
ScenarioA == <<"c","h","a","r"," ","b","u","f","[","1","0","]",";"," ","s","t","r","c","p","y","(","b","u","f",","," ","s","r","c",")",";">>

ScenarioB == <<"s","p","r","i","n","t","f","(","a",","," ","b",")",";"," ","s","p","r","i","n","t","f","(","c",","," ","d",")",";"," ","v","s","p","r","i","n","t","f","(","e",","," ","f",")",";">>

\* A call whose closing parenthesis is on the next line.
ScenarioMultiline == <<"g","e","t","s","(","a",",","\n","b",")","x">>

CPastes ==
  { ScenarioMultiline, <<"f","g","e","t","s","(","b","u","f",","," ","1","0",","," ","s","t","d","i","n",")">>,
    <<"g","e","t","s","(","b","u","f",")",";">>,
    ScenarioA,
    ScenarioB }

ScenarioC == <<"i","m","p","o","r","t"," ","h","a","s","h","l","i","b">>

PyPastes ==
  { <<"m","k","t","e","m","p","(","x",")","\n","m","a","k","e","f","i","l","e">>,
    <<"e","m","a","i","l",".","u","t","i","l","s">>,
    <<"u","r","l","l","i","b",".","r","e","q","u","e","s","t">>,
    ScenarioC }

Pastes(server) ==
  IF server \in {"c", "cout"} THEN CPastes ELSE PyPastes

\* ------------------------------------------------------------ state machine
(***************************************************************************)
(* One server process whose client does not support workspace/configuration *)
(* (hasConfigurationCapability = false), with one document.                *)
(*   server         : which of the four servers this process runs          *)
(*   opened         : the document is in the TextDocuments manager         *)
(*   text           : textDocument.getText()                               *)
(*   edits          : fragments typed into the document                    *)
(*   globalSettings : the settings getDocumentSettings resolves to         *)
(*   pc             : "validating" while validateTextDocument is suspended *)
(*                    at its await, "idle" otherwise                       *)
(*   published      : what the validation last started has sent            *)
(*   regexes        : lastIndex of the regular expression object each      *)
(*                    rule's loop of the next validation starts with       *)
(*   rescan         : history: the validation last started scans the same  *)
(*                    text under the same settings as the one before it,   *)
(*                    which had sent `before`                              *)
(*                                                                         *)
(* The connection of a server to a client with several documents:          *)
(*   hasConfigurationCapability : set by onInitialize                      *)
(*   documents        : the TextDocuments manager: for each URI the        *)
(*                      TextDocument object it holds, 0 when not open      *)
(*   objects          : the TextDocument objects created so far, each with *)
(*                      its URI and its current text                       *)
(*   documentSettings : the cache: for each URI the promise it holds, 0    *)
(*                      when it has no entry                               *)
(*   requests         : the promises getConfiguration returned, each with  *)
(*                      its scope URI, whether the client's response has   *)
(*                      arrived, and the settings the response carried     *)
(*   waiting          : the validateTextDocument calls suspended at their  *)
(*                      await, in the order they were called               *)
(*   clientSettings   : the configuration of each scope at the client      *)
(*   sent             : history: for each URI the last sendDiagnostics     *)
(*   events           : the notifications of the client handled so far     *)
(*   changes          : history: for each configuration change the number  *)
(*                      of promises that existed when it arrived and the   *)
(*                      configuration the client changed to                *)
(*   lastContent      : history: the text of the last open or change       *)
(*                      notification of each URI                           *)
(***************************************************************************)
VARIABLES server, opened, text, edits, globalSettings, pc, published,
          regexes, rescan,
          hasConfigurationCapability, documents, objects, documentSettings,
          requests, waiting, clientSettings, sent, events, changes,
          lastContent

conn == << hasConfigurationCapability, documents, objects, documentSettings,
           requests, waiting, clientSettings, sent, events, changes,
           lastContent >>

vars == << server, opened, text, edits, globalSettings, pc, published,
           regexes, rescan, conn >>

\* The URIs of the documents a client opens.
Uris == { "a", "b" }

\* What sendDiagnostics has last sent for a URI: nothing yet.
NeverSent ==
  [any |-> FALSE, diagnostics |-> <<>>, text |-> <<>>, promise |-> 0,
   object |-> 0, closed |-> FALSE, epoch |-> 0]

\* A connection on which nothing has happened.
Connected(capability, settings) ==
  /\ hasConfigurationCapability = capability
  /\ documents = [u \in Uris |-> 0]
  /\ objects = <<>>
  /\ documentSettings = [u \in Uris |-> 0]
  /\ requests = <<>>
  /\ waiting = <<>>
  /\ clientSettings = [u \in Uris |-> settings]
  /\ sent = [u \in Uris |-> NeverSent]
  /\ events = 0
  /\ changes = <<>>
  /\ lastContent = [u \in Uris |-> <<>>]

NothingSent == [sent |-> FALSE, diagnostics |-> <<>>]
NoRescan == [happened |-> FALSE, before |-> <<>>]

\* The state of a server process after its module has been evaluated.
InitOf(servers) ==
  /\ server \in servers
  /\ opened = FALSE
  /\ text = <<>>
  /\ edits = 0
  /\ globalSettings = defaultSettings(server)
  /\ pc = "idle"
  /\ published = NothingSent
  /\ regexes = [i \in 1..Len(Catalog(server)) |-> 0]
  /\ rescan = NoRescan
  /\ Connected(FALSE, defaultSettings(server))

\* documents.onDidChangeContent: the document is opened or edited (a
\* fragment is typed at its end, everything is deleted, or a whole text is
\* pasted over it) and validateTextDocument is called, which suspends at its
\* await.
onDidChangeContent ==
  /\ pc = "idle"
  /\ \/ /\ edits < MaxEdits
        /\ \E frag \in Fragments(server) : text' = text \o frag
        /\ edits' = edits + 1
     \/ /\ text' = <<>>
        /\ edits' = 0
     \/ /\ \E paste \in Pastes(server) : text' = paste
        /\ edits' = MaxEdits
  /\ opened' = TRUE
  /\ pc' = "validating"
  /\ published' = NothingSent
  /\ rescan' = NoRescan
  /\ UNCHANGED << server, globalSettings, regexes, conn >>

\* connection.onDidChangeConfiguration without the configuration capability:
\* globalSettings = change.settings.languageServerExample || defaultSettings,
\* then every open document is revalidated.
onDidChangeConfiguration ==
  /\ pc = "idle"
  /\ \E s \in SettingsInputs(server) \cup {defaultSettings(server)} :
       /\ globalSettings' = s
       /\ IF opened
          THEN /\ pc' = "validating"
               /\ rescan' = IF s = globalSettings /\ published.sent
                            THEN [happened |-> TRUE,
                                  before |-> published.diagnostics]
                            ELSE NoRescan
               /\ published' = NothingSent
          ELSE UNCHANGED << pc, rescan, published >>
  /\ UNCHANGED << server, opened, text, edits, regexes, conn >>

\* validateTextDocument resumes with the settings, scans the text and sends
\* the diagnostics; its regular expression objects die with the call.  An
\* exception rejects the promise nobody awaits: sendDiagnostics is not
\* reached.
Validate ==
  /\ pc = "validating"
  /\ LET run == validateTextDocument(server, text, globalSettings, regexes)
     IN /\ published' = IF run.threw THEN NothingSent
                         ELSE [sent |-> TRUE, diagnostics |-> run.diagnostics]
        /\ regexes' = [i \in DOMAIN regexes |-> NewRegExp(run.regexes[i])]
  /\ pc' = "idle"
  /\ UNCHANGED << server, opened, text, edits, globalSettings, rescan, conn >>

Next == onDidChangeContent \/ onDidChangeConfiguration \/ Validate

\* A process running the C server or the Python server of the sources.
Init == InitOf({"c", "py"})

Spec == Init /\ [][Next]_vars

\* A process running the C server of the sources or the compiled C server.
InitC == InitOf({"c", "cout"})

SpecC == InitC /\ [][Next]_vars

\* A process running the Python server or the earlier Python server.
InitPy == InitOf({"py", "pyold"})

SpecPy == InitPy /\ [][Next]_vars

\* ------------------------------------------------ several documents
\* The client is the LanguageClient of src/client: it answers a
\* workspace/configuration request with the configuration it has when it
\* answers, in any order among the requests it holds, and its messages reach
\* the server in the order it sent them.  As the server's state changes only
\* when it handles a message, each message is handled in the step in which
\* the client sends it.

\* The promises getConfiguration creates and the client notifications a
\* behaviour has at most.
MaxRequests == 3
MaxEvents == 3

\* The texts of the documents: a gets call and a strcpy call, each followed
\* by a word character.
Contents ==
  { <<"g","e","t","s","(","b",")","f">>,
    <<"s","t","r","c","p","y","(","a",")","x">> }

\* The configurations of a scope: the defaults, and the gets rule off.
ScopedSettings ==
  { defaultSettings("c"), [defaultSettings("c") EXCEPT !.c.gets = FALSE] }

\* What a promise holds before the response has arrived.
Unanswered == defaultSettings("c")

\* getDocumentSettings that hands out a promise cached for any document.
getDocumentSettingsShared(cache, reqs, resource) ==
  IF \E u \in Uris : cache[u] # 0
  THEN [result |-> cache[CHOOSE u \in Uris : cache[u] # 0],
        documentSettings |-> cache, requests |-> reqs]
  ELSE [result |-> Len(reqs) + 1,
        documentSettings |-> [cache EXCEPT ![resource] = Len(reqs) + 1],
        requests |-> Append(reqs, [uri |-> resource, resolved |-> FALSE,
                                   value |-> Unanswered])]

\* getDocumentSettings with the configuration capability: the promise cached
\* for the resource, or else a new workspace/configuration request, cached.
getDocumentSettings(cache, reqs, resource) ==
  IF cache[resource] # 0
  THEN [result |-> cache[resource], documentSettings |-> cache,
        requests |-> reqs]
  ELSE [result |-> Len(reqs) + 1,
        documentSettings |-> [cache EXCEPT ![resource] = Len(reqs) + 1],
        requests |-> Append(reqs, [uri |-> resource, resolved |-> FALSE,
                                   value |-> Unanswered])]

\* The await that yields the defaults whatever the promise holds.
AwaitedDefault(reqs, p) == defaultSettings("c")

\* const settings = await promise.
Awaited(reqs, p) == reqs[p].value

\* A change notification that leaves the TextDocument object as it was.
UpdateDocumentStale(objs, k, t) == objs

\* TextDocuments updates the TextDocument object of a changed document in
\* place.
UpdateDocument(objs, k, t) == [objs EXCEPT ![k].text = t]

\* A close handler that keeps the cache entry.
DeleteNothing(cache, uri) == cache

\* documentSettings.delete(uri)
Delete(cache, uri) == [cache EXCEPT ![uri] = 0]

\* A change handler that keeps the cache.
ClearNothing(cache) == cache

\* documentSettings.clear()
Clear(cache) == [u \in DOMAIN cache |-> 0]

\* The server's maps and the history of what it sent, as a handler threads
\* them through the validations it starts.
Maps ==
  [documentSettings |-> documentSettings, requests |-> requests,
   waiting |-> waiting, sent |-> sent]

\* validateTextDocument after its await, for TextDocument object k: it reads
\* the object's text, scans it with regular expressions and a problem
\* counter of its own and sends the diagnostics under the object's URI.
Resume(st, objs, docs, k, p, settings, epoch) ==
  [st EXCEPT !.sent[objs[k].uri] =
     [any         |-> TRUE,
      diagnostics |-> Scan(server, objs[k].text, settings),
      text        |-> objs[k].text,
      promise     |-> p,
      object      |-> k,
      closed      |-> docs[objs[k].uri] # k,
      epoch       |-> epoch]]

\* validateTextDocument(textDocument) up to its await, and beyond it when the
\* promise is settled already: without the capability getDocumentSettings
\* returns Promise.resolve(globalSettings).
Call(st, objs, docs, k, capability, global, epoch) ==
  IF ~ capability
  THEN Resume(st, objs, docs, k, 0, global, epoch)
  ELSE LET g == getDocumentSettings(st.documentSettings, st.requests,
                                    objs[k].uri)
           st1 == [st EXCEPT !.documentSettings = g.documentSettings,
                             !.requests = g.requests]
       IN IF g.requests[g.result].resolved
          THEN Resume(st1, objs, docs, k, g.result,
                      Awaited(g.requests, g.result), epoch)
          ELSE [st1 EXCEPT !.waiting =
                  Append(@, [object |-> k, promise |-> g.result])]

\* documents.all().forEach(validateTextDocument)
RECURSIVE CallAll(_, _, _, _, _, _, _)
CallAll(st, objs, docs, uris, capability, global, epoch) ==
  IF uris = {} THEN st
  ELSE LET u == CHOOSE x \in uris : TRUE
           next == IF docs[u] = 0 THEN st
                   ELSE Call(st, objs, docs, docs[u], capability, global, epoch)
       IN CallAll(next, objs, docs, uris \ {u}, capability, global, epoch)

\* The calls waiting for promise p resume in the order they were called.
RECURSIVE ResumeAll(_, _, _, _, _, _)
ResumeAll(st, objs, docs, i, p, epoch) ==
  IF i > Len(st.waiting)
  THEN LET Other(v) == v.promise # p
       IN [st EXCEPT !.waiting = SelectSeq(st.waiting, Other)]
  ELSE ResumeAll(IF st.waiting[i].promise = p
                 THEN Resume(st, objs, docs, st.waiting[i].object, p,
                             Awaited(st.requests, p), epoch)
                 ELSE st,
                 objs, docs, i + 1, p, epoch)

Install(st) ==
  /\ documentSettings' = st.documentSettings
  /\ requests' = st.requests
  /\ waiting' = st.waiting
  /\ sent' = st.sent

\* There are promises left for n more requests.
Room(n) == ~ hasConfigurationCapability \/ Len(requests) + n <= MaxRequests

scanner == << server, opened, text, edits, pc, published, regexes, rescan >>

\* textDocument/didOpen: the manager creates the TextDocument and fires
\* onDidChangeContent, which calls validateTextDocument.
didOpen ==
  /\ events < MaxEvents
  /\ \E u \in Uris, t \in Contents :
       /\ documents[u] = 0
       /\ Room(1)
       /\ LET objs == Append(objects, [uri |-> u, text |-> t])
              docs == [documents EXCEPT ![u] = Len(objs)]
          IN /\ objects' = objs
             /\ documents' = docs
             /\ lastContent' = [lastContent EXCEPT ![u] = t]
             /\ Install(Call(Maps, objs, docs, Len(objs),
                             hasConfigurationCapability, globalSettings,
                             Len(changes)))
  /\ events' = events + 1
  /\ UNCHANGED << scanner, globalSettings, hasConfigurationCapability,
                  clientSettings, changes >>

\* textDocument/didChange: the manager updates the TextDocument and fires
\* onDidChangeContent.
didChange ==
  /\ events < MaxEvents
  /\ \E u \in Uris, t \in Contents :
       /\ documents[u] # 0
       /\ t # objects[documents[u]].text
       /\ Room(IF documentSettings[u] = 0 THEN 1 ELSE 0)
       /\ LET objs == UpdateDocument(objects, documents[u], t)
          IN /\ objects' = objs
             /\ lastContent' = [lastContent EXCEPT ![u] = t]
             /\ Install(Call(Maps, objs, documents, documents[u],
                             hasConfigurationCapability, globalSettings,
                             Len(changes)))
  /\ events' = events + 1
  /\ UNCHANGED << scanner, globalSettings, hasConfigurationCapability,
                  documents, clientSettings, changes >>

\* textDocument/didClose: the manager drops the TextDocument and fires
\* onDidClose.
didClose ==
  /\ events < MaxEvents
  /\ \E u \in Uris :
       /\ documents[u] # 0
       /\ documents' = [documents EXCEPT ![u] = 0]
       /\ documentSettings' = Delete(documentSettings, u)
  /\ events' = events + 1
  /\ UNCHANGED << scanner, globalSettings, hasConfigurationCapability,
                  objects, requests, waiting, clientSettings, sent, changes,
                  lastContent >>

\* The user changes the configuration and the client sends
\* workspace/didChangeConfiguration: connection.onDidChangeConfiguration.
\* Without the capability the notification carries the settings.
didChangeConfiguration ==
  /\ events < MaxEvents
  /\ Room(Cardinality({ u \in Uris : documents[u] # 0 }))
  /\ \E cs \in [Uris -> ScopedSettings] :
       /\ cs # clientSettings
       /\ hasConfigurationCapability \/ \A u, v \in Uris : cs[u] = cs[v]
       /\ clientSettings' = cs
       /\ changes' = Append(changes, [requests |-> Len(requests),
                                      settings |-> cs])
       /\ globalSettings' = IF hasConfigurationCapability
                            THEN globalSettings
                            ELSE cs[CHOOSE u \in Uris : TRUE]
       /\ Install(CallAll(IF hasConfigurationCapability
                          THEN [Maps EXCEPT !.documentSettings = Clear(@)]
                          ELSE Maps,
                          objects, documents, Uris,
                          hasConfigurationCapability, globalSettings',
                          Len(changes')))
  /\ events' = events + 1
  /\ UNCHANGED << scanner, hasConfigurationCapability, documents, objects,
                  lastContent >>

\* The client's response to a workspace/configuration request arrives: the
\* promise is fulfilled with the configuration of its scope and the calls
\* awaiting it resume.
configurationResponse ==
  /\ \E p \in 1..Len(requests) :
       /\ ~ requests[p].resolved
       /\ Install(ResumeAll(
            [Maps EXCEPT !.requests[p] =
               [@ EXCEPT !.resolved = TRUE,
                         !.value = clientSettings[requests[p].uri]]],
            objects, documents, 1, p, Len(changes)))
  /\ UNCHANGED << scanner, globalSettings, hasConfigurationCapability,
                  documents, objects, clientSettings, events, changes,
                  lastContent >>

NextServer ==
  \/ didOpen
  \/ didChange
  \/ didClose
  \/ didChangeConfiguration
  \/ configurationResponse

\* A process running the C server, initialized by a client with or without
\* the configuration capability.
InitServer ==
  /\ server = "c"
  /\ opened = FALSE
  /\ text = <<>>
  /\ edits = 0
  /\ globalSettings = defaultSettings(server)
  /\ pc = "idle"
  /\ published = NothingSent
  /\ regexes = [i \in 1..Len(Catalog(server)) |-> 0]
  /\ rescan = NoRescan
  /\ \E capability \in BOOLEAN :
       Connected(capability, defaultSettings(server))

SpecServer == InitServer /\ [][NextServer]_vars

\* ------------------------------------------------------------ properties
\* A validation has sent its diagnostics and no event has arrived since.
Sent == pc = "idle" /\ published.sent

\* The problem cap in force.
Cap == globalSettings.maxNumberOfProblems

PyServers == { "py", "pyold" }
CServers == { "c", "cout" }

\* The diagnostics of a list that carry the message of a rule, and the others.
ByRule(diags, rule) ==
  LET Mine(d) == d.message.msg = rule.errorMsg IN SelectSeq(diags, Mine)
Without(diags, rule) ==
  LET Other(d) == d.message.msg # rule.errorMsg IN SelectSeq(diags, Other)

IsPrefix(s, t) == Len(s) <= Len(t) /\ SubSeq(t, 1, Len(s)) = s

WithCap(settings, n) == [settings EXCEPT !.maxNumberOfProblems = n]

\* A cap no document of the model has enough matches to reach (a fragment
\* holds at most two).
LargeCap == 2 * MaxEdits + 1

\* The scan of the current text under the current settings with a cap larger
\* than the number of matches.
Uncapped ==
  Scan(server, text, WithCap(globalSettings, Max({Cap, LargeCap})))

\* Every match of a rule's pattern in a text, as the rule's loop reports them
\* when nothing stops it.
AllMatches(t, rule) ==
  MatchLoop(t, rule, TRUE, Len(t) + 1,
            [problems |-> 0, diagnostics |-> <<>>, lastIndex |-> 0]).diagnostics

\* The positions in the catalog of the rules behind a kind of gate.
Gated(gate) == { i \in 1..Len(Catalog(server)) : Catalog(server)[i].gate = gate }

\* C1: the diagnostics one scan publishes never number more than
\* maxNumberOfProblems, the matches of all rules counted together; with cap 0
\* nothing is published.
CapBound ==
  published.sent =>
    /\ Len(published.diagnostics) <= Cap
    /\ (Cap = 0 => published.diagnostics = <<>>)

\* A scan stopped by a cap of 2 with diagnostics of two different rules
\* while a further match was waiting.
CapBoundWitness ==
  /\ Sent
  /\ Cap = 2
  /\ Len(published.diagnostics) = 2
  /\ published.diagnostics[1].message.msg # published.diagnostics[2].message.msg
  /\ Len(Uncapped) > 2

\* C2: for a fixed text, toggles and version, the scan under the cap lowered
\* by one publishes no more diagnostics than the scan under the cap, and the
\* list published under a cap is a prefix of the list published under a cap
\* larger than the number of matches.
MonotonicCap ==
  Sent =>
    LET lower == IF Cap > 0
                 THEN Scan(server, text, WithCap(globalSettings, Cap - 1))
                 ELSE <<>>
    IN /\ Len(lower) <= Len(published.diagnostics)
       /\ IsPrefix(lower, published.diagnostics)
       /\ IsPrefix(published.diagnostics, Uncapped)

\* A scan under cap 1 that publishes one diagnostic of the several the text
\* has, the scan without the cap ending by itself.
MonotonicCapWitness ==
  /\ Sent
  /\ Cap = 1
  /\ Len(published.diagnostics) = 1
  /\ Len(Uncapped) > 2
  /\ Len(Uncapped) < LargeCap

\* C3: a scan publishes what a scan of the same text under the same settings
\* by fresh regular expressions publishes, and a second scan of the same text
\* under the same settings in the same process publishes the list the first
\* one published.
Deterministic ==
  /\ Sent => published.diagnostics = Scan(server, text, globalSettings)
  /\ Sent /\ rescan.happened => published.diagnostics = rescan.before

\* A second scan after a scan that left a rule's loop at the cap, its regular
\* expression at the end of a match.
DeterministicWitness ==
  /\ Sent
  /\ rescan.happened
  /\ Cap > 0
  /\ Len(published.diagnostics) = Cap
  /\ Len(Uncapped) > Cap

\* Is the toggle of a toggle-gated rule true in the settings?
ToggleOn(settings, rule) ==
  IF server \in CServers THEN Truthy(settings.c, rule.name)
  ELSE Truthy(settings.python, rule.name)

\* The settings with the toggle of a rule switched to false.
SwitchedOff(settings, rule) ==
  IF server \in CServers THEN [settings EXCEPT !.c[rule.name] = FALSE]
  ELSE [settings EXCEPT !.python[rule.name] = FALSE]

\* Switching the toggle of a rule off takes exactly the diagnostics of that
\* rule out of what the scan of the current text publishes.
RemovesExactly(rule) ==
  Scan(server, text, SwitchedOff(globalSettings, rule))
    = Without(published.diagnostics, rule)

\* C4 as stated: for every text, cap and setting of the other toggles,
\* switching one toggle from true to false removes exactly the diagnostics of
\* that toggle's rule, every other diagnostic stays and none appears.
ToggleIndependence ==
  Sent =>
    \A i \in Gated("toggle") :
      ToggleOn(globalSettings, Catalog(server)[i])
        => RemovesExactly(Catalog(server)[i])

\* C4: when the scan with the toggle true ends below the problem cap,
\* switching the toggle from true to false removes exactly the diagnostics of
\* that toggle's rule, every other diagnostic stays and none appears.
ToggleIndependenceBelowCap ==
  Sent /\ Len(published.diagnostics) < Cap =>
    \A i \in Gated("toggle") :
      ToggleOn(globalSettings, Catalog(server)[i])
        => RemovesExactly(Catalog(server)[i])

\* A scan below the cap with diagnostics of a rule whose toggle is true and
\* diagnostics of other rules.
ToggleIndependenceWitness ==
  /\ Sent
  /\ Len(published.diagnostics) < Cap
  /\ \E i \in Gated("toggle") :
       /\ ToggleOn(globalSettings, Catalog(server)[i])
       /\ ByRule(published.diagnostics, Catalog(server)[i]) # <<>>
       /\ Without(published.diagnostics, Catalog(server)[i]) # <<>>

\* C5: a toggle-gated rule whose setting is false publishes no diagnostic
\* with its message, whatever the text contains; one whose setting is true
\* publishes every match of its pattern when the scan ends below the cap.
ToggleGating ==
  Sent =>
    \A i \in Gated("toggle") :
      LET rule == Catalog(server)[i] IN
      /\ ~ ToggleOn(globalSettings, rule)
           => ByRule(published.diagnostics, rule) = <<>>
      /\ ToggleOn(globalSettings, rule) /\ Len(published.diagnostics) < Cap
           => ByRule(published.diagnostics, rule) = AllMatches(text, rule)

\* A scan with a positive cap of a text that a rule with a false toggle
\* matches, while another rule reports.
ToggleGatingWitness ==
  /\ Sent
  /\ Cap > 0
  /\ published.diagnostics # <<>>
  /\ \E i \in Gated("toggle") :
       /\ ~ ToggleOn(globalSettings, Catalog(server)[i])
       /\ Search(text, Catalog(server)[i].pattern)

\* The version the settings declare.
Declared == globalSettings.python.version

\* Does a version string contain a match of one of the range patterns?
InSomeRange(version, versions) ==
  \E j \in 1..Len(versions) : Search(version, versions[j])

\* The ranges /3\.7\./g and /3\.8\./g.
Ranges78 ==
  << Literal(FALSE, <<{"3"}, {"."}, {"7"}, {"."}>>, FALSE, TRUE),
     Literal(FALSE, <<{"3"}, {"."}, {"8"}, {"."}>>, FALSE, TRUE) >>

\* C6: a version-gated rule reports only when the declared version contains
\* a match of one of its ranges, and then reports every match of its pattern
\* when the scan ends below the cap; the flag computed for the ranges 3.7.
\* and 3.8. is true for 3.8.2 and false for 3.11.0, and the flag computed for
\* no ranges is false (for settings that declare a version).
VersionGating ==
  server \in PyServers /\ ~ SearchThrows(globalSettings) =>
    /\ Sent =>
         \A i \in Gated("version") :
           LET rule == Catalog(server)[i] IN
           /\ ByRule(published.diagnostics, rule) # <<>>
                => InSomeRange(Declared, rule.versions)
           /\ InSomeRange(Declared, rule.versions)
                /\ Len(published.diagnostics) < Cap
                => ByRule(published.diagnostics, rule) = AllMatches(text, rule)
    /\ Declared = <<"3",".","8",".","2">> => vulnerable(Declared, Ranges78)
    /\ Declared = <<"3",".","1","1",".","0">> => ~ vulnerable(Declared, Ranges78)
    /\ ~ vulnerable(Declared, <<>>)

\* A scan under the declared version 3.8.2 that publishes a diagnostic of a
\* version-gated rule.
VersionGatingWitness ==
  /\ Sent
  /\ server \in PyServers
  /\ Declared = <<"3",".","8",".","2">>
  /\ \E i \in Gated("version") :
       ByRule(published.diagnostics, Catalog(server)[i]) # <<>>

\* Does the text contain the marker makefile?
ContainsMarker(t) ==
  \E p \in 1..(Len(t) - 7) :
    SubSeq(t, p, p + 7) = <<"m","a","k","e","f","i","l","e">>

\* The diagnostics of a list that belong to the rules before the i-th.
Earlier(diags, i) ==
  LET Before(d) == \E k \in 1..(i - 1) : d.message.msg = Catalog(server)[k].errorMsg
  IN SelectSeq(diags, Before)

\* C7: the mktemp rule publishes nothing when the text does not contain
\* makefile, and when the text contains it (anywhere) publishes its matches
\* in order up to the room the cap leaves after the earlier rules, whatever
\* the toggles and the declared version.
ContextGating ==
  Sent /\ server \in PyServers =>
    \A i \in Gated("context") :
      LET rule == Catalog(server)[i]
          all  == AllMatches(text, rule)
          room == Cap - Len(Earlier(published.diagnostics, i))
      IN ByRule(published.diagnostics, rule)
           = IF ContainsMarker(text)
             THEN SubSeq(all, 1, Min({Len(all), room}))
             ELSE <<>>

\* A scan, both toggles false, of a text with makefile on the line after the
\* mktemp call, which publishes the mktemp diagnostic.
ContextGatingWitness ==
  /\ Sent
  /\ server = "py"
  /\ ~ Truthy(globalSettings.python, "errorMessages")
  /\ ~ Truthy(globalSettings.python, "inputValidation")
  /\ text = <<"m","k","t","e","m","p","(","x",")","\n","m","a","k","e","f","i","l","e">>
  /\ \E i \in Gated("context") :
       ByRule(published.diagnostics, Catalog(server)[i]) # <<>>

\* C8 as stated: the diagnostics one rule publishes in a scan have pairwise
\* non-overlapping spans, each starting at or after the end of the rule's
\* previous one, for every rule of both catalogs.
NonOverlappingSpans ==
  Sent =>
    \A a, b \in 1..Len(published.diagnostics) :
      a < b /\ published.diagnostics[a].message.msg
                 = published.diagnostics[b].message.msg
        => published.diagnostics[a].end <= published.diagnostics[b].start

\* The gets rule of a C server.
getsRule == Catalog(server)[2]

\* C9: a diagnostic of a C rule starts where the rule's function name stands
\* in the text with no word character before it, so the name as the tail of a
\* longer identifier is never reported: a text whose only gets is the one
\* inside fgets(buf, 10, stdin) has no diagnostic of the gets rule.
WordBoundaryNegative ==
  Sent /\ server \in CServers =>
    /\ \A i \in 1..Len(Catalog(server)) :
         LET rule  == Catalog(server)[i]
             diags == ByRule(published.diagnostics, rule)
         IN \A k \in 1..Len(diags) :
              /\ FixedAt(text, rule.pattern.prefix, diags[k].start)
              /\ ~ IsWordAt(text, diags[k].start - 1)
    /\ (\A p \in 0..Len(text) :
          FixedAt(text, getsRule.pattern.prefix, p) => IsWordAt(text, p - 1))
         => ByRule(published.diagnostics, getsRule) = <<>>

\* The scan, with the gets toggle true and a cap not reached, of
\* fgets(buf, 10, stdin), which publishes nothing.
WordBoundaryNegativeWitness ==
  /\ Sent
  /\ server \in CServers
  /\ globalSettings.c.gets
  /\ Len(published.diagnostics) < Cap
  /\ text = <<"f","g","e","t","s","(","b","u","f",","," ","1","0",","," ","s","t","d","i","n",")">>
  /\ published.diagnostics = <<>>

\* The text contains a call of gets at offset p: the name with no word
\* character before it, an argument and a closing parenthesis on the line.
GetsCallAt(t, p) ==
  /\ FixedAt(t, Lit(<<"g","e","t","s","(","b">>), p)
  /\ ~ IsWordAt(t, p - 1)
  /\ \E q \in (p + 6)..(Len(t) - 1) :
       /\ t[q + 1] = ")"
       /\ \A r \in (p + 5)..q : t[r + 1] \notin LineTerminators

\* C10 as stated: with the gets toggle true and a cap of at least 1 that the
\* other rules leave room under, a text containing a call of gets (gets(buf);
\* or gets(b) at the end of the text) has a diagnostic of the gets rule.
WordBoundaryPositive ==
  Sent /\ server \in CServers /\ globalSettings.c.gets
       /\ Cap >= 1 /\ Len(published.diagnostics) < Cap
       /\ (\E p \in 0..Len(text) : GetsCallAt(text, p))
    => ByRule(published.diagnostics, getsRule) # <<>>

\* Is a word one of the pieces of a message?
Mentions(msg, word) == \E k \in 1..Len(msg) : msg[k] = word

\* The stretch of the scanned text a diagnostic spans.
Spanned(d) == SubSeq(text, d.start + 1, d.end)

\* C11 as stated: the scan of  char buf[10]; strcpy(buf, src);  with the
\* strcpy toggle true and the default cap publishes exactly one diagnostic,
\* which spans  strcpy(buf, src)  and whose message recommends strncpy().
ScenarioAOneDiagnostic ==
  Sent /\ server \in CServers /\ text = ScenarioA
       /\ Truthy(globalSettings.c, "strcpy") /\ Cap = DefaultMaxProblems
    => /\ Len(published.diagnostics) = 1
       /\ Spanned(published.diagnostics[1])
            = <<"s","t","r","c","p","y","(","b","u","f",","," ","s","r","c",")">>
       /\ Mentions(published.diagnostics[1].message.msg, "strncpy()")

\* The sprintf and vsprintf rules of a C server.
sprintfRule == Catalog(server)[6]
vsprintfRule == Catalog(server)[7]

\* C12 as stated: the scan of a text with two sprintf calls and one vsprintf
\* call, both toggles true and the cap not reached, publishes exactly three
\* diagnostics, two with the sprintf message and one with the vsprintf
\* message, and no sprintf diagnostic starts inside the vsprintf call.
ScenarioBThreeDiagnostics ==
  Sent /\ server \in CServers /\ text = ScenarioB
       /\ Truthy(globalSettings.c, "sprintf")
       /\ Truthy(globalSettings.c, "vsprintf")
       /\ Len(published.diagnostics) < Cap
    => /\ Len(published.diagnostics) = 3
       /\ Len(ByRule(published.diagnostics, sprintfRule)) = 2
       /\ Len(ByRule(published.diagnostics, vsprintfRule)) = 1
       /\ \A k \in 1..Len(published.diagnostics) :
            LET d == published.diagnostics[k] IN
            d.message.msg = sprintfRule.errorMsg
              => ~ IsWordAt(text, d.start - 1)

\* The hashlib rule of the Python server and its place in the catalog.
hashlibAt ==
  CHOOSE i \in 1..Len(Catalog("py")) : Catalog("py")[i].name = "cve2022_37454"
hashlibRule == Catalog("py")[hashlibAt]

\* The offsets at which a literal stands in a text.
Occurrences(t, chars) == { p \in 0..Len(t) : FixedAt(t, Lit(chars), p) }

\* C13: for a text with one occurrence of hashlib and a cap the earlier rules
\* leave room under, the hashlib rule publishes exactly one diagnostic, whose
\* message cites CVE-2022-37454, under the declared version 3.9.5, and none
\* under the declared version 3.12.0.
ScenarioCHashlib ==
  Sent /\ server = "py"
       /\ Cardinality(Occurrences(text, <<"h","a","s","h","l","i","b">>)) = 1
       /\ Cap - Len(Earlier(published.diagnostics, hashlibAt)) >= 1
    => LET mine == ByRule(published.diagnostics, hashlibRule) IN
       /\ Declared = <<"3",".","9",".","5">>
            => Len(mine) = 1 /\ Mentions(mine[1].message.msg, "CVE-2022-37454")
       /\ Declared = <<"3",".","1","2",".","0">> => mine = <<>>

\* The scan of  import hashlib  under the declared version 3.9.5 with its one
\* diagnostic.
ScenarioCHashlibWitness ==
  /\ Sent
  /\ server = "py"
  /\ text = ScenarioC
  /\ Declared = <<"3",".","9",".","5">>
  /\ Len(published.diagnostics) = 1
  /\ Spanned(published.diagnostics[1]) = <<"h","a","s","h","l","i","b">>

\* The last validation started has ended, by sending or by an exception.
Ended == pc = "idle" /\ opened

\* C14 as stated: whatever the settings lack (a toggle, the declared version)
\* and whether or not the version matches a range, a scan ends by publishing;
\* a rule whose toggle is missing publishes nothing, without a declared
\* version no version-gated rule publishes, and every rule whose toggle is
\* true publishes its matches when the scan ends below the cap.
ConfigDefectTolerated ==
  Ended =>
    /\ published.sent
    /\ \A i \in Gated("toggle") :
         LET rule == Catalog(server)[i] IN
         /\ ~ ToggleOn(globalSettings, rule)
              => ByRule(published.diagnostics, rule) = <<>>
         /\ ToggleOn(globalSettings, rule) /\ Len(published.diagnostics) < Cap
              => ByRule(published.diagnostics, rule) = AllMatches(text, rule)
    /\ server \in PyServers /\ SearchThrows(globalSettings)
         => \A i \in Gated("version") :
              ByRule(published.diagnostics, Catalog(server)[i]) = <<>>

\* The place in the catalog of the rule whose message a diagnostic carries.
RuleIndex(d) ==
  CHOOSE i \in 1..Len(Catalog(server)) :
    Catalog(server)[i].errorMsg = d.message.msg

\* The names of the rules of a catalog, in order.
Names(catalog) == [i \in 1..Len(catalog) |-> catalog[i].name]

\* C15: the published list is grouped by rule in catalog order, every
\* diagnostic of an earlier rule before every diagnostic of a later one; the
\* C catalog is strcpy, gets, stpcpy, strcat, strcmp, sprintf, vsprintf and
\* the Python catalog error, input, mktemp and the CVE rules in push order.
CatalogOrder ==
  /\ Sent =>
       \A a, b \in 1..Len(published.diagnostics) :
         a < b => RuleIndex(published.diagnostics[a])
                    <= RuleIndex(published.diagnostics[b])
  /\ server = "c" =>
       Names(Catalog(server)) =
         << "strcpy", "gets", "stpcpy", "strcat", "strcmp", "sprintf",
            "vsprintf" >>
  /\ server = "py" =>
       Names(Catalog(server)) =
         << "errorMessages", "inputValidation", "mktemp",
            "cve2023_27043", "cve2023_24329", "cve2022_37454",
            "cve2022_45061", "cve2022_42919", "cve2020_10735",
            "cve2018_25032", "cve2016_3189", "cve2019_12900",
            "cve2013_0340", "cve2021_3737" >>

\* A scan that publishes the diagnostic of an earlier rule first although
\* its match stands later in the text.
CatalogOrderWitness ==
  /\ Sent
  /\ Len(published.diagnostics) = 2
  /\ RuleIndex(published.diagnostics[1]) < RuleIndex(published.diagnostics[2])
  /\ published.diagnostics[1].start > published.diagnostics[2].start

\* Is a rule active under the current settings and text?
IsActive(rule) ==
  CASE rule.gate = "toggle" -> ToggleOn(globalSettings, rule)
    [] rule.gate = "context" -> ContainsMarker(text)
    [] rule.gate = "version" -> InSomeRange(Declared, rule.versions)

\* The number of matches a rule has for a scan under a cap: those of its
\* pattern in the text when it is active; a pattern without the g flag that
\* matches has a match at every turn of the loop, as many as the cap allows.
MatchCount(rule, cap) ==
  IF ~ IsActive(rule) THEN 0
  ELSE IF rule.pattern.global THEN Len(AllMatches(text, rule))
  ELSE IF Search(text, rule.pattern) THEN cap ELSE 0

RECURSIVE TotalMatches(_, _)
TotalMatches(i, cap) ==
  IF i = 0 THEN 0
  ELSE TotalMatches(i - 1, cap) + MatchCount(Catalog(server)[i], cap)

Over(diags, rule, s, e) ==
  { k \in 1..Len(diags) :
      /\ diags[k].start = s
      /\ diags[k].end = e
      /\ diags[k].message.msg = rule.errorMsg }

\* C17: under a declared version in the ranges of the two bz2 rules and a cap
\* the scan ends below, every occurrence of bz2 in the text has exactly one
\* published diagnostic of CVE-2016-3189 and exactly one of CVE-2019-12900,
\* both over the occurrence's span, each with its own rule's message.
NoDeduplication ==
  ( /\ Sent
    /\ server = "py"
    /\ Len(published.diagnostics) < Cap
    /\ InSomeRange(Declared, cve2016_3189.versions)
    /\ InSomeRange(Declared, cve2019_12900.versions) ) =>
    /\ cve2016_3189.errorMsg # cve2019_12900.errorMsg
    /\ \A p \in Occurrences(text, <<"b","z","2">>) :
         /\ Cardinality(Over(published.diagnostics, cve2016_3189, p, p + 3)) = 1
         /\ Cardinality(Over(published.diagnostics, cve2019_12900, p, p + 3)) = 1

\* A scan below the cap that publishes, for two occurrences of bz2, two
\* diagnostics of each bz2 rule.
NoDeduplicationWitness ==
  /\ Sent
  /\ server = "py"
  /\ Len(published.diagnostics) < Cap
  /\ Cardinality(Occurrences(text, <<"b","z","2">>)) = 2
  /\ Len(ByRule(published.diagnostics, cve2016_3189)) = 2
  /\ Len(ByRule(published.diagnostics, cve2019_12900)) = 2
  /\ published.diagnostics[1].start = published.diagnostics[3].start

\* C18: every published diagnostic, of either server and of any rule, has the
\* severity Warning and the source sec-buddy.
FixedSeverityAndSource ==
  Sent =>
    \A k \in 1..Len(published.diagnostics) :
      /\ published.diagnostics[k].severity = "Warning"
      /\ published.diagnostics[k].source = "sec-buddy"

\* A scan of the Python server that publishes the diagnostics of a toggle
\* rule and of a version-gated rule.
FixedSeverityAndSourceWitness ==
  /\ Sent
  /\ server = "py"
  /\ \E a, b \in 1..Len(published.diagnostics) :
       /\ Catalog(server)[RuleIndex(published.diagnostics[a])].gate = "toggle"
       /\ Catalog(server)[RuleIndex(published.diagnostics[b])].gate = "version"

\* The CVE identifier the variable of a vulnerable-package rule is named
\* after.
Identifier(name) ==
  CASE name = "cve2023_27043" -> "CVE-2023-27043"
    [] name = "cve2023_24329" -> "CVE-2023-24329"
    [] name = "cve2022_37454" -> "CVE-2022-37454"
    [] name = "cve2022_45061" -> "CVE-2022-45061"
    [] name = "cve2022_42919" -> "CVE-2022-42919"
    [] name = "cve2020_10735" -> "CVE-2020-10735"
    [] name = "cve2018_25032" -> "CVE-2018-25032"
    [] name = "cve2016_3189"  -> "CVE-2016-3189"
    [] name = "cve2019_12900" -> "CVE-2019-12900"
    [] name = "cve2013_0340"  -> "CVE-2013-0340"
    [] name = "cve2021_3737"  -> "CVE-2021-3737"

\* The version-gated rules of the Python server.
PackageRules ==
  { Catalog("py")[i] : i \in { j \in 1..Len(Catalog("py")) :
                                 Catalog("py")[j].gate = "version" } }

\* What a message has between its parentheses.
Cited(msg) == { msg[k] : k \in 2..(Len(msg) - 1) }

\* C19: every published diagnostic of a version-gated rule of the Python
\* server has the rule's CVE identifier in its message, and the identifiers
\* the messages of these rules cite are exactly the eleven of the README.
CveIdentifiers ==
  /\ (Sent /\ server = "py") =>
       \A k \in 1..Len(published.diagnostics) :
         LET d == published.diagnostics[k]
             rule == Catalog(server)[RuleIndex(d)]
         IN rule.gate = "version" =>
              /\ Mentions(d.message.msg, Identifier(rule.name))
              /\ Cited(d.message.msg) \subseteq
                   { HandledCVEs[i] : i \in 1..Len(HandledCVEs) }
  /\ UNION { Cited(r.errorMsg) : r \in PackageRules }
       = { HandledCVEs[i] : i \in 1..Len(HandledCVEs) }
  /\ { Identifier(r.name) : r \in PackageRules }
       = { HandledCVEs[i] : i \in 1..Len(HandledCVEs) }
  /\ Cardinality({ HandledCVEs[i] : i \in 1..Len(HandledCVEs) }) = 11

\* A scan that publishes the diagnostics of two version-gated rules, each
\* citing its own identifier.
CveIdentifiersWitness ==
  /\ Sent
  /\ server = "py"
  /\ Len(published.diagnostics) = 2
  /\ LET a == Catalog(server)[RuleIndex(published.diagnostics[1])]
         b == Catalog(server)[RuleIndex(published.diagnostics[2])]
     IN /\ a.gate = "version"
        /\ b.gate = "version"
        /\ Identifier(a.name) # Identifier(b.name)
        /\ Mentions(published.diagnostics[1].message.msg, Identifier(a.name))
        /\ Mentions(published.diagnostics[2].message.msg, Identifier(b.name))

\* C20: the range of every published diagnostic is the half-open span of a
\* match of its rule's pattern in the scanned text: start < end, both within
\* 0..length of the text, and the pattern matches at start and ends at end.
RangeIsMatchSpan ==
  Sent =>
    \A k \in 1..Len(published.diagnostics) :
      LET d == published.diagnostics[k]
          rule == Catalog(server)[RuleIndex(d)]
      IN /\ 0 <= d.start
         /\ d.start < d.end
         /\ d.end <= Len(text)
         /\ MatchEnd(text, rule.pattern, d.start) = d.end
         /\ rule.withMatch => d.message.m0 = Spanned(d)

\* A scan that publishes a diagnostic whose match has text before it and
\* after it.
RangeIsMatchSpanWitness ==
  /\ Sent
  /\ \E k \in 1..Len(published.diagnostics) :
       LET d == published.diagnostics[k] IN
         /\ 0 < d.start
         /\ d.end < Len(text)
         /\ MatchEnd(text, Catalog(server)[RuleIndex(d)].pattern, d.start)
              = d.end

\* The offsets of a text at which a pattern matches.
MatchStarts(t, pat) == { p \in 0..(Len(t) - 1) : MatchEnd(t, pat, p) # -1 }

\* C21 as stated: every scan reaches sendDiagnostics, and the turns a rule's
\* loop takes, one per diagnostic it pushes, are no more than the
\* occurrences of its pattern in the text.
IterationsBoundedByOccurrences ==
  Sent =>
    \A i \in 1..Len(Catalog(server)) :
      Len(ByRule(published.diagnostics, Catalog(server)[i]))
        <= Cardinality(MatchStarts(text, Catalog(server)[i].pattern))

\* C26 as stated: for every text and configuration the C server of the
\* TypeScript source and the compiled C server publish the same diagnostics.
SourceEqualsCompiled ==
  (Sent /\ server \in CServers) =>
    Scan("c", text, globalSettings) = Scan("cout", text, globalSettings)

\* C28: the defaults of the Python server are cap 1000, both toggles true and
\* the declared version 3.12.0; the version matches no range of any of the
\* eleven CVE rules, and a scan under the defaults publishes diagnostics of
\* the error, input and mktemp rules only.
DefaultsDisableVersionRules ==
  /\ (Sent /\ server = "py" /\ globalSettings = defaultSettings(server)) =>
       \A k \in 1..Len(published.diagnostics) :
         Catalog(server)[RuleIndex(published.diagnostics[k])].name
           \in {"errorMessages", "inputValidation", "mktemp"}
  /\ \A r \in PackageRules :
       ~ InSomeRange(defaultSettings("py").python.version, r.versions)
  /\ Cardinality(PackageRules) = 11
  /\ defaultSettings("py") =
       [maxNumberOfProblems |-> 1000,
        python |-> [errorMessages |-> TRUE, inputValidation |-> TRUE,
                    version |-> <<"3",".","1","2",".","0">>]]

\* A scan under the defaults of a text with bz2 and an input call, which
\* publishes the input diagnostic alone.
DefaultsDisableVersionRulesWitness ==
  /\ Sent
  /\ server = "py"
  /\ globalSettings = defaultSettings(server)
  /\ Search(text, cve2016_3189.pattern)
  /\ Len(published.diagnostics) = 1
  /\ Catalog(server)[RuleIndex(published.diagnostics[1])].name
       = "inputValidation"

\* The offsets at which a rule's function name stands at a word boundary
\* with an opening parenthesis directly after it.
CallStarts(t, rule) ==
  { p \in 0..(Len(t) - 1) :
      /\ WordBoundary(t, p)
      /\ FixedAt(t, rule.pattern.prefix, p)
      /\ p + Len(rule.pattern.prefix) < Len(t)
      /\ t[p + Len(rule.pattern.prefix) + 1] = "(" }

\* C30 as stated: with a rule's toggle true and the scan ending below the
\* cap, every call of the rule's function in the text lies inside the span
\* of a diagnostic of the rule.
DetectionComplete ==
  (Sent /\ server \in CServers /\ Len(published.diagnostics) < Cap) =>
    \A i \in 1..Len(Catalog(server)) :
      LET rule == Catalog(server)[i] IN
        ToggleOn(globalSettings, rule) =>
          \A p \in CallStarts(text, rule) :
            \E k \in 1..Len(published.diagnostics) :
              /\ published.diagnostics[k].message.msg = rule.errorMsg
              /\ published.diagnostics[k].start <= p
              /\ p < published.diagnostics[k].end

\* ------------------------------------------- properties of the connection
\* No validateTextDocument call is suspended at its await.
Quiescent == waiting = <<>>

IsOpen(u) == documents[u] # 0

\* The URI's document has been opened once and never closed.
NeverClosed(u) ==
  \A k \in 1..Len(objects) : objects[k].uri = u => k = documents[u]

\* The number of promises that existed when the last configuration change
\* arrived.
Mark == IF changes = <<>> THEN 0 ELSE changes[Len(changes)].requests

\* The configuration the client had when promise p was requested.
ConfigurationAt(p) ==
  LET before == { j \in 1..Len(changes) : changes[j].requests < p }
  IN IF before = {} THEN [u \in Uris |-> defaultSettings(server)]
     ELSE changes[Max(before)].settings

\* The last validation of a URI had requested its settings before a
\* configuration change that arrived before it resumed.
PendingAcrossChange(u) ==
  /\ sent[u].any
  /\ sent[u].promise # 0
  /\ \E j \in 1..sent[u].epoch : changes[j].requests >= sent[u].promise

\* C22 as stated: a run uses the configuration in force when it started; a
\* configuration change that arrives while it is pending is used only by
\* runs started afterwards.
SnapshotAtStart ==
  \A u \in Uris :
    (sent[u].any /\ sent[u].promise # 0) =>
      sent[u].diagnostics
        = Scan(server, sent[u].text, ConfigurationAt(sent[u].promise)[u])

\* C22 amended: every rule of a run is evaluated against the one value the
\* settings promise obtained at the run's start resolves to; a configuration
\* change notification does not replace that promise, and without the
\* capability the value is globalSettings as the handler that started the
\* run left it.
SnapshotPerScan ==
  \A u \in Uris :
    sent[u].any =>
      IF sent[u].promise # 0
      THEN sent[u].diagnostics
             = Scan(server, sent[u].text, requests[sent[u].promise].value)
      ELSE IsOpen(u) =>
             sent[u].diagnostics = Scan(server, sent[u].text, globalSettings)

\* A run that was pending when a configuration change arrived has published
\* a gets diagnostic.
SnapshotPerScanWitness ==
  \E u \in Uris :
    /\ PendingAcrossChange(u)
    /\ sent[u].diagnostics # <<>>
    /\ documentSettings[u] # sent[u].promise

\* C23: whatever the interleaving of the events and pending validations of
\* the documents, what is published under a URI comes from a TextDocument of
\* that URI, is the scan of that document's text under settings requested
\* for that URI's scope, and depends on nothing another scan left behind.
ScansIndependent ==
  \A u \in Uris :
    sent[u].any =>
      /\ objects[sent[u].object].uri = u
      /\ sent[u].promise # 0 =>
           /\ requests[sent[u].promise].uri = u
           /\ sent[u].diagnostics
                = validateTextDocument(
                    server, sent[u].text, requests[sent[u].promise].value,
                    [i \in 1..Len(Catalog(server)) |-> 0]).diagnostics
      /\ Quiescent /\ IsOpen(u) /\ NeverClosed(u) =>
           sent[u].text = objects[documents[u]].text

\* Two open documents with the same text, scanned under different settings
\* of their scopes, have different diagnostics published.
ScansIndependentWitness ==
  /\ hasConfigurationCapability
  /\ \A u \in Uris : IsOpen(u) /\ sent[u].any /\ sent[u].promise # 0
  /\ sent["a"].text = sent["b"].text
  /\ sent["a"].diagnostics # sent["b"].diagnostics
  /\ requests[sent["a"].promise].value # requests[sent["b"].promise].value

\* C24 as stated: with the capability, once no validation is pending the
\* diagnostics last published for every open document were computed from
\* settings requested after the last configuration change.
RequestedAfterChange ==
  (hasConfigurationCapability /\ Quiescent) =>
    \A u \in Uris :
      (IsOpen(u) /\ sent[u].any) => sent[u].promise > Mark

\* C24 amended: with the capability, a configuration change empties the
\* cache and revalidates every open document, so every open document's cache
\* entry is a promise requested after the change; once no validation is
\* pending the diagnostics last published for every open document are the
\* scan under the configuration the client has had since the change, which
\* may be the value of a promise requested before the change and answered
\* after it.
PublishedFromCurrentConfiguration ==
  hasConfigurationCapability =>
    \A u \in Uris :
      IsOpen(u) =>
        /\ documentSettings[u] > Mark
        /\ Quiescent =>
             /\ sent[u].any
             /\ sent[u].diagnostics
                  = Scan(server, sent[u].text, clientSettings[u])

\* After a configuration change that switched a rule off, an open document's
\* last diagnostics come from a promise requested before the change.
PublishedFromCurrentConfigurationWitness ==
  /\ hasConfigurationCapability
  /\ Quiescent
  /\ changes # <<>>
  /\ \E u \in Uris :
       /\ IsOpen(u)
       /\ NeverClosed(u)
       /\ sent[u].any
       /\ sent[u].promise <= Mark
       /\ clientSettings[u] # defaultSettings(server)
       /\ sent[u].diagnostics # Scan(server, sent[u].text, defaultSettings(server))

\* C25: the cache has entries for open documents only, and none without the
\* configuration capability.
CacheOnlyOpen ==
  /\ \A u \in Uris : documentSettings[u] # 0 => IsOpen(u)
  /\ ~ hasConfigurationCapability => \A u \in Uris : documentSettings[u] = 0

\* A document was closed while a validation of it was pending; the
\* validation has resumed and the cache has no entry for the document.
CacheOnlyOpenWitness ==
  /\ hasConfigurationCapability
  /\ Quiescent
  /\ \E u \in Uris :
       /\ ~ IsOpen(u)
       /\ sent[u].any
       /\ sent[u].closed
       /\ documentSettings[u] = 0

\* C27 as stated: sendDiagnostics is never called for a document that has
\* been closed.
NoPublishAfterClose ==
  \A u \in Uris : sent[u].any => ~ sent[u].closed

\* C29: once no validation is pending, the diagnostics last published for an
\* open document that has only seen content changes and configuration
\* changes were computed from the text of its last content change.
LatestTextPublished ==
  Quiescent =>
    \A u \in Uris :
      (IsOpen(u) /\ NeverClosed(u)) =>
        /\ sent[u].any
        /\ sent[u].text = lastContent[u]

\* A document opened, changed and revalidated by a configuration change,
\* with the capability, has its last text published.
LatestTextPublishedWitness ==
  /\ hasConfigurationCapability
  /\ Quiescent
  /\ Len(objects) = 1
  /\ Len(changes) = 1
  /\ events = 3
  /\ \E u \in Uris :
       /\ IsOpen(u)
       /\ sent[u].text = lastContent[u]
       /\ sent[u].diagnostics # <<>>

====
